---- MODULE Spec2Model ----
(***************************************************************************)
(* A model of uplexa-python's key plumbing: Seed construction and lazy key *)
(* derivation (uplexa/seed.py), Wallet.refresh / new_account / get_address *)
(* (uplexa/wallet.py) and the PaymentID value type used by the tests and   *)
(* by utils/transfer.py.                                                   *)
(*                                                                         *)
(* Strings are modelled by what the code reads of them:                    *)
(*   - a hexadecimal string is the sequence of its digits (0..15), in text *)
(*     order; "" is << >>;                                                 *)
(*   - a mnemonic phrase is the sequence of its space-separated words, a   *)
(*     word being its index in the word list (0..WordlistN-1), or a number *)
(*     >= WordlistN for a word the word list does not hold.                *)
(* Numbers wider than 31 bits (32-bit entropy words, 64- and 256-bit       *)
(* payment IDs, uint32 indices) are kept as digit sequences or as          *)
(* (high, low) halves, never truncated.                                    *)
(* Hashes and curve operations are terms: Keccak(x) is <<"keccak", x>>,    *)
(* so that equal inputs give equal outputs and nothing else is assumed.    *)
(***************************************************************************)
EXTENDS Integers, Sequences, FiniteSets, TLC

VARIABLES
    seed,       \* SeedSpec: the Seed built from the caller's argument (or NoSeed)
    seed2,      \* SeedSpec: a second Seed built from seed.phrase (or NoSeed)
    keys,       \* KeySpec: the shared Seed object the threads derive keys from
    thr,        \* KeySpec: each thread's call, position, locals and result
    backend,    \* WalletSpec, AddrSpec: the wallet daemon: its accounts, its net
    wallet,     \* WalletSpec, AddrSpec: the Wallet object: accounts list, last call
    addr,       \* AddrSpec: the get_address calls made, with their outcomes
    pid,        \* PidSpec: the PaymentID built from the caller's argument
    pid2,       \* PidSpec: PaymentID(pid), the copy construction
    amt         \* AmountSpec: the last amount conversion, its argument and result

vars == <<seed, seed2, keys, thr, backend, wallet, addr, pid, pid2, amt>>

-----------------------------------------------------------------------------
(* Bounds of the model.                                                    *)

\* How many of ChunkVals the 32-hex-character entropy inputs draw from.
NumChunkVals == 3
\* How many of WordVals the typed-in phrases draw from.
NumWordVals == 3
\* How many threads call the key methods of one Seed.
NumThreads == 2
\* How many accounts the backend may come to hold.
MaxAccounts == 5

-----------------------------------------------------------------------------
(* Digit sequences.                                                        *)

Zeros(n) == [i \in 1..n |-> 0]

Rep(d, n) == [i \in 1..n |-> d]

\* The value of a short digit sequence in base b (only where it fits).
RECURSIVE ToInt(_, _)
ToInt(ds, b) == IF ds = << >> THEN 0
                ELSE ToInt(SubSeq(ds, 1, Len(ds) - 1), b) * b + ds[Len(ds)]

\* Long division of a hexadecimal digit sequence by a small number:
\* remainder after the first i digits.
DivRem(ds, n) ==
    LET R[i \in 0..Len(ds)] == IF i = 0 THEN 0 ELSE (R[i - 1] * 16 + ds[i]) % n
    IN  R

DivQuot(ds, n) ==
    LET R == DivRem(ds, n)
    IN  [i \in 1..Len(ds) |-> (R[i - 1] * 16 + ds[i]) \div n]

\* ds * k + c for a hexadecimal digit sequence, in as many digits as ds has
\* (the callers give ds enough leading zeros).
MulAdd(ds, k, c) ==
    LET L == Len(ds)
        \* carry into digit i (counted from the least significant, 1-based)
        C[i \in 1..(L + 1)] == IF i = 1 THEN c
                               ELSE (ds[L + 2 - i] * k + C[i - 1]) \div 16
    IN  [j \in 1..L |-> (ds[j] * k + C[L + 1 - j]) % 16]

\* Hexadecimal digits of a small number, in exactly n digits.
RECURSIVE HexOf(_, _)
HexOf(x, n) == IF n = 0 THEN << >>
               ELSE Append(HexOf(x \div 16, n - 1), x % 16)

StripZeros(ds) ==
    LET nz == {i \in 1..Len(ds) : ds[i] # 0}
    IN  IF nz = {} THEN << >>
        ELSE SubSeq(ds, CHOOSE i \in nz : \A j \in nz : i <= j, Len(ds))

-----------------------------------------------------------------------------
(* The word list codec (uplexa/wordlists: encode, decode, get_checksum).   *)

\* The size of the word list.
WordlistN == 1626

\* One 4-byte word of entropy is read little-endian: the four bytes (pairs
\* of hexadecimal digits) are reversed.
EndianSwap(w) == <<w[7], w[8], w[5], w[6], w[3], w[4], w[1], w[2]>>

\* Three words for the 32-bit number x of one 8-digit chunk:
\* w1 = x mod n, w2 = (x div n + w1) mod n, w3 = (x div n div n + w2) mod n.
EncodeChunk(w) ==
    LET ds == EndianSwap(w)
        n  == WordlistN
        w1 == DivRem(ds, n)[8]
        q  == ToInt(DivQuot(ds, n), 16)
        w2 == (q + w1) % n
        w3 == ((q \div n) + w2) % n
    IN  <<w1, w2, w3>>

\* The 8 digits of x = w1 + n*((w2-w1) mod n) + n*n*((w3-w2) mod n), as a
\* 4-byte little-endian word.
DecodeTriple(w1, w2, w3) ==
    LET n     == WordlistN
        a     == (w2 - w1) % n
        b     == (w3 - w2) % n
        inner == a + n * b
        x     == MulAdd(HexOf(inner, 9), n, w1)
    IN  EndianSwap(SubSeq(x, 2, 9))

\* A deterministic digest of the words' prefixes (the word list's prefixes
\* are unique, so it is a function of the words).
RECURSIVE CheckHash(_)
CheckHash(ws) == IF ws = << >> THEN 7
                 ELSE (CheckHash(SubSeq(ws, 1, Len(ws) - 1)) * 31 + ws[Len(ws)] + 1) % 65521

\* The checksum word of data words: one of them, picked by the digest.
ChecksumWord(ws) == ws[(CheckHash(ws) % Len(ws)) + 1]

\* get_checksum(phrase) for a phrase with a checksum slot: computed over
\* the words before the slot.
WordlistGetChecksum(phrase) == ChecksumWord(SubSeq(phrase, 1, Len(phrase) - 1))

\* encode(hex): three words per 8-digit chunk, then the checksum word.
WordlistEncode(hex) ==
    LET k  == Len(hex) \div 8
        ws == [j \in 1..(3 * k) |->
                 EncodeChunk(SubSeq(hex, 8 * ((j - 1) \div 3) + 1,
                                         8 * ((j - 1) \div 3) + 8))[((j - 1) % 3) + 1]]
    IN  Append(ws, ChecksumWord(ws))

SupportedWordCounts == {12, 13, 24, 25}

\* decode without the word count check: any number of words is decoded.
WordlistDecodeAnyCount(phrase) ==
    IF \E i \in 1..Len(phrase) : phrase[i] >= WordlistN
    THEN [raised |-> "ValueError: Invalid mnemonic phrase", hex |-> << >>]
    ELSE LET k  == Len(phrase) \div 3
             ch == [i \in 1..k |-> DecodeTriple(phrase[3 * i - 2], phrase[3 * i - 1], phrase[3 * i])]
         IN  [raised |-> "none",
              hex |-> [j \in 1..(8 * k) |-> ch[((j - 1) \div 8) + 1][((j - 1) % 8) + 1]]]

\* decode(phrase): rejects an unsupported word count and a word the list
\* does not hold; otherwise 8 digits per three words (a checksum word, the
\* 13th or 25th, is left over and unread).
WordlistDecode(phrase) ==
    IF Len(phrase) \notin SupportedWordCounts \/ \E i \in 1..Len(phrase) : phrase[i] >= WordlistN
    THEN [raised |-> "ValueError: Invalid mnemonic phrase", hex |-> << >>]
    ELSE LET k  == Len(phrase) \div 3
             ch == [i \in 1..k |-> DecodeTriple(phrase[3 * i - 2], phrase[3 * i - 1], phrase[3 * i])]
         IN  [raised |-> "none",
              hex |-> [j \in 1..(8 * k) |-> ch[((j - 1) \div 8) + 1][((j - 1) % 8) + 1]]]

-----------------------------------------------------------------------------
(* Seed (uplexa/seed.py).                                                  *)

None == <<"None">>

\* The argument phrase_or_hex: a string with no space is one token, read as
\* hexadecimal (hex); a string with spaces is its words; "" is neither.
EmptyArg == [hex |-> << >>, words |-> << >>]
HexArg(h) == [hex |-> h, words |-> << >>]
PhraseArg(ws) == [hex |-> << >>, words |-> ws]

\* bool(phrase_or_hex)
ArgTruthy(arg) == arg.hex # << >> \/ arg.words # << >>

\* len(phrase_or_hex.split(" "))
SplitLen(arg) == IF arg.words # << >> THEN Len(arg.words) ELSE 1

\* The object as __init__ first sets it: lines 59-65.
BlankSeed == [phrase |-> << >>, hex |-> << >>, raised |-> "none",
              ed_pub_spend_key |-> None, ed_pub_view_key |-> None]

\* An exception leaving __init__: the fields stay as they are at the raise.
Raise(s, e) == [s EXCEPT !.raised = e]

\* _encode_seed
EncodeSeed(s) == [s EXCEPT !.phrase = WordlistEncode(s.hex)]

\* _decode_seed
DecodeSeed(s) ==
    LET d == WordlistDecode(s.phrase)
    IN  IF d.raised # "none" THEN Raise(s, d.raised) ELSE [s EXCEPT !.hex = d.hex]

\* _validate_checksum
ValidateChecksum(s) ==
    IF WordlistGetChecksum(s.phrase) = s.phrase[Len(s.phrase)]
    THEN s
    ELSE Raise(s, "ValueError: Invalid checksum")

\* StandardBranch with the checksum looked for in a 24-word phrase (== 24 for
\* == 25): a 25-word phrase is decoded unverified.
StandardBranchOffByOne(s, arg) ==
    LET s1 == [s EXCEPT !.phrase = arg.words]
        s2 == IF SplitLen(arg) = 24 THEN ValidateChecksum(s1) ELSE s1
    IN  IF s2.raised # "none" THEN s2 ELSE DecodeSeed(s2)

\* len(seed_split) >= 24: the standard mnemonic
StandardBranch(s, arg) ==
    LET s1 == [s EXCEPT !.phrase = arg.words]
        s2 == IF SplitLen(arg) = 25 THEN ValidateChecksum(s1) ELSE s1
    IN  IF s2.raised # "none" THEN s2 ELSE DecodeSeed(s2)

\* MyUplexaBranch without its call of _decode_seed: hex stays "".
MyUplexaBranchNoDecode(s, arg) ==
    LET s1 == [s EXCEPT !.phrase = arg.words]
    IN  IF SplitLen(arg) = 13 THEN ValidateChecksum(s1) ELSE s1

\* len(seed_split) >= 12: the myuplexa mnemonic
MyUplexaBranch(s, arg) ==
    LET s1 == [s EXCEPT !.phrase = arg.words]
        s2 == IF SplitLen(arg) = 13 THEN ValidateChecksum(s1) ELSE s1
    IN  IF s2.raised # "none" THEN s2 ELSE DecodeSeed(s2)

\* len(seed_split) == 1: a single string, taken for hexadecimal
HexBranch(s, arg) ==
    IF Len(arg.hex) % 8 # 0
    THEN Raise(s, "ValueError: Not valid hexadecimal")
    ELSE EncodeSeed([s EXCEPT !.hex = arg.hex])

\* Seed.__init__(phrase_or_hex); rnd is what generate_hex() returns.
SeedInit(arg, rnd) ==
    IF ArgTruthy(arg)
    THEN IF SplitLen(arg) >= 24 THEN StandardBranch(BlankSeed, arg)
         ELSE IF SplitLen(arg) >= 12 THEN MyUplexaBranch(BlankSeed, arg)
         ELSE IF SplitLen(arg) = 1 THEN HexBranch(BlankSeed, arg)
         ELSE Raise(BlankSeed, "ValueError: Not valid mnemonic phrase or hex")
    ELSE EncodeSeed([BlankSeed EXCEPT !.hex = rnd])


-----------------------------------------------------------------------------
(* Key derivation (uplexa/seed.py, lines 119-169). Hashing, scalar         *)
(* reduction and curve arithmetic are terms over the seed's digits.        *)

\* unhexlify(h): the bytes of a hexadecimal string
Unhexlify(h) == <<"bytes", h>>

\* keccak_256(x).digest()
Keccak(x) == <<"keccak", x>>

\* ed25519.public_from_secret_hex(hex)
PublicFromSecretHex(x) == <<"public_from_secret_hex", x>>

\* Seed.sc_reduce: hexlify(encodeint(decodeint(input) % l))
ScReduce(x) == <<"sc_reduce", x>>

\* Seed.is_myuplexa
IsMyUplexa(s) == Len(s.hex) = 32

\* Seed._hex_seed_keccak
HexSeedKeccak(s) == Keccak(Unhexlify(s.hex))

\* Seed.secret_spend_key
SecretSpendKey(s) == ScReduce(IF IsMyUplexa(s) THEN HexSeedKeccak(s) ELSE Unhexlify(s.hex))

\* Seed.secret_view_key
SecretViewKey(s) ==
    ScReduce(Keccak(IF IsMyUplexa(s) THEN HexSeedKeccak(s) ELSE Unhexlify(SecretSpendKey(s))))

\* A Python value's truth: None is false, a key (a non-empty string) true.
Truthy(v) == v # None

\* The field public_spend_key tests before computing (line 143).
SpendKeyMemo(s) == s.ed_pub_spend_key

\* The field public_view_key tests before computing (line 149), with the
\* copy-and-paste slip of testing the spend key's field.
ViewKeyMemoOfSpend(s) == s.ed_pub_spend_key

\* The field public_view_key tests before computing (line 149).
ViewKeyMemo(s) == s.ed_pub_view_key

Nets == {"mainnet", "testnet", "stagenet"}

\* netbyte = 18 if net == 'mainnet' else 53 if net == 'testnet' else 24
SeedNetbyte(net) == IF net = "mainnet" THEN 18 ELSE IF net = "testnet" THEN 53 ELSE 24

\* Seed.public_address, from the two public keys its calls returned:
\* base58(data + first 8 digits of keccak(data)), data = netbyte, spend, view.
PublicAddressOf(net, psk, pvk) ==
    LET data == <<"data", <<SeedNetbyte(net)>>, psk, pvk>>
    IN  <<"address", <<"base58", data, <<"checksum", Keccak(data)>>>>>>

-----------------------------------------------------------------------------
(* The inputs the Seed is built from.                                      *)

\* 8-digit chunks: 0, 2^32-1, 1626 (little-endian 5a 06 00 00), and two
\* mixed ones.
ChunkVals == << <<0,0,0,0,0,0,0,0>>, <<15,15,15,15,15,15,15,15>>,
                <<5,10,0,6,0,0,0,0>>, <<13,14,10,13,11,14,14,15>>,
                <<1,2,3,4,5,6,7,8>>, <<0,0,0,0,0,0,0,8>> >>

ChunkPool == {ChunkVals[i] : i \in 1..(IF NumChunkVals < Len(ChunkVals) THEN NumChunkVals ELSE Len(ChunkVals))}

Concat(chunks) == [j \in 1..(8 * Len(chunks)) |-> chunks[((j - 1) \div 8) + 1][((j - 1) % 8) + 1]]

\* 16 bytes of entropy: 32 digits.
Hex32Inputs == {Concat(c) : c \in [1..4 -> ChunkPool]}

\* 32 bytes of entropy: 64 digits.
Hex64Inputs == {Concat(c) : c \in [1..8 -> {ChunkVals[2], ChunkVals[3]}]}
               \cup {h \o h : h \in Hex32Inputs}

\* Strings of one token whose length is no multiple of 8.
BadHexInputs == {Rep(10, n) : n \in {1, 7, 9, 31, 33, 63, 65}}

\* Words: three of the list (the first, the last, the second), one the list
\* does not hold, one more of the list, one more it does not hold.
WordVals == <<0, 1625, 1, 1626, 812, 1627>>

WordPool == {WordVals[i] : i \in 1..(IF NumWordVals < Len(WordVals) THEN NumWordVals ELSE Len(WordVals))}

PhraseLens == {2, 11, 12, 13, 14, 23, 24, 25, 26, 27}

\* Typed-in phrases: a first word, a filler and a last word.
PhraseInputs == {[i \in 1..L |-> IF i = 1 THEN a ELSE IF i = L THEN c ELSE b] :
                    L \in PhraseLens, a \in WordPool, b \in WordPool, c \in WordPool}

SeedArgs == {EmptyArg} \cup {HexArg(h) : h \in Hex32Inputs \cup Hex64Inputs \cup BadHexInputs}
            \cup {PhraseArg(p) : p \in PhraseInputs}

NoSeed == [built |-> FALSE, arg |-> EmptyArg, obj |-> BlankSeed]

-----------------------------------------------------------------------------
(* SeedSpec: build a Seed, then build a second one from its phrase.        *)

IdleKeys == BlankSeed
IdleThr == << >>
IdleBackend == [accounts |-> << >>, net |-> "mainnet"]
IdleWallet == [accounts |-> << >>, last |-> "none", raised |-> "none"]
IdleAddr == << >>
IdlePid == [built |-> FALSE, src |-> [kind |-> "none", neg |-> FALSE, digits |-> << >>],
            obj |-> [raised |-> "none", value |-> << >>]]
IdleAmt == [op |-> "none", d |-> [int |-> << >>, frac |-> << >>], n |-> << >>, n0 |-> << >>]

SeedInitState ==
    /\ seed = NoSeed
    /\ seed2 = NoSeed
    /\ keys = IdleKeys
    /\ thr = IdleThr
    /\ backend = IdleBackend
    /\ wallet = IdleWallet
    /\ addr = IdleAddr
    /\ pid = IdlePid
    /\ pid2 = IdlePid
    /\ amt = IdleAmt

\* Seed(arg)
NewSeed ==
    /\ ~seed.built
    /\ \E arg \in SeedArgs :
          \E rnd \in (IF ArgTruthy(arg) THEN {<< >>} ELSE Hex64Inputs) :
             seed' = [built |-> TRUE, arg |-> arg, obj |-> SeedInit(arg, rnd)]
    /\ UNCHANGED <<seed2, keys, thr, backend, wallet, addr, pid, pid2, amt>>

\* Seed(seed.phrase): the phrase of a built Seed, joined by spaces, given back
SeedFromPhrase ==
    /\ seed.built
    /\ seed.obj.raised = "none"
    /\ ~seed2.built
    /\ seed2' = [built |-> TRUE, arg |-> PhraseArg(seed.obj.phrase),
                 obj |-> SeedInit(PhraseArg(seed.obj.phrase), << >>)]
    /\ UNCHANGED <<seed, keys, thr, backend, wallet, addr, pid, pid2, amt>>

SeedNext == NewSeed \/ SeedFromPhrase

SeedSpec == SeedInitState /\ [][SeedNext]_vars


-----------------------------------------------------------------------------
(* Claims about Seed construction, checked under SeedSpec.                 *)

Built == {s \in {seed, seed2} : s.built}

IsEntropyArg(arg) == arg.words = << >> /\ Len(arg.hex) \in {32, 64}

\* C1: a Seed built from entropy e of 32 or 64 hexadecimal digits has
\* hex = e and a phrase p, and the Seed built from p has hex = e again
\* (decode(encode(e)) = e).
C1_EntropyRoundTrip ==
    (seed.built /\ IsEntropyArg(seed.arg)) =>
        /\ seed.obj.raised = "none"
        /\ seed.obj.hex = seed.arg.hex
        /\ Len(seed.obj.phrase) = 3 * (Len(seed.arg.hex) \div 8) + 1
        /\ seed2.built => (seed2.obj.raised = "none" /\ seed2.obj.hex = seed.arg.hex)

\* C1's case: 64 digits that are not all zero came back from their 25 words.
C1_Witness ==
    /\ seed.built /\ seed2.built
    /\ Len(seed.arg.hex) = 64
    /\ \E i \in 1..64 : seed.arg.hex[i] # 0
    /\ Len(seed2.arg.words) = 25
    /\ seed2.obj.hex = seed.arg.hex

HasChecksumSlot(arg) == Len(arg.words) \in {13, 25}

ChecksumMismatch(arg) == WordlistGetChecksum(arg.words) # arg.words[Len(arg.words)]

\* C2: a phrase of exactly 13 or 25 words whose last word is not the
\* checksum word fails with the invalid-checksum error and is never decoded;
\* a phrase of 12 or 24 words is decoded with no checksum verification.
C2_ChecksumEnforced ==
    \A s \in Built :
        /\ (HasChecksumSlot(s.arg) /\ ChecksumMismatch(s.arg)) =>
              (s.obj.raised = "ValueError: Invalid checksum" /\ s.obj.hex = << >>)
        /\ Len(s.arg.words) \in {12, 24} =>
              /\ s.obj.raised = WordlistDecode(s.arg.words).raised
              /\ s.obj.hex = WordlistDecode(s.arg.words).hex

\* C2's case: a 25-word phrase with a wrong last word was refused.
C2_Witness ==
    /\ seed.built
    /\ Len(seed.arg.words) = 25
    /\ ChecksumMismatch(seed.arg)
    /\ seed.obj.raised = "ValueError: Invalid checksum"

C4_AllOrNothing ==
    \A s \in Built :
        s.obj.raised # "none" => (s.obj.phrase = << >> /\ s.obj.hex = << >>)


-----------------------------------------------------------------------------
(* KeySpec: threads calling public_spend_key, public_view_key and          *)
(* public_address on one built Seed. A step is one read or one write of a  *)
(* field of the shared object, or a computation on a thread's own locals.  *)

Threads == 1..NumThreads

KeyCalls == {"public_spend_key", "public_view_key", "public_address"}

IdleThread == [call |-> "none", net |-> "mainnet", pc |-> "idle",
               tmp_spend |-> None, tmp_view |-> None,
               spend |-> None, view |-> None,
               result |-> None, raised |-> "none"]

\* The Seeds the threads share: one of 16 bytes, one of 32.
KeyHexInputs == {Concat(<<ChunkVals[4], ChunkVals[5], ChunkVals[2], ChunkVals[3]>>),
                 Concat(<<ChunkVals[4], ChunkVals[5], ChunkVals[2], ChunkVals[3],
                          ChunkVals[5], ChunkVals[4], ChunkVals[3], ChunkVals[1]>>)}

KeyInitState ==
    /\ seed = NoSeed
    /\ seed2 = NoSeed
    /\ keys \in {SeedInit(HexArg(h), << >>) : h \in KeyHexInputs}
    /\ thr = [t \in Threads |-> IdleThread]
    /\ backend = IdleBackend
    /\ wallet = IdleWallet
    /\ addr = IdleAddr
    /\ pid = IdlePid
    /\ pid2 = IdlePid
    /\ amt = IdleAmt

KeyFrame == UNCHANGED <<seed, seed2, backend, wallet, addr, pid, pid2, amt>>

\* A thread enters one of the three methods.
KeyCall(t) ==
    /\ thr[t].pc = "idle"
    /\ \E c \in KeyCalls :
         \E net \in (IF c = "public_address" THEN Nets \cup {"othernet"} ELSE {"mainnet"}) :
            thr' = [thr EXCEPT ![t].call = c, ![t].net = net,
                               ![t].pc = CASE c = "public_address" -> "addr_net"
                                           [] c = "public_spend_key" -> "psk_test"
                                           [] OTHER -> "pvk_test"]
    /\ UNCHANGED keys
    /\ KeyFrame

\* public_address, lines 161-163: the net argument
AddrNet(t) ==
    /\ thr[t].pc = "addr_net"
    /\ thr' = IF thr[t].net \in Nets
              THEN [thr EXCEPT ![t].pc = "psk_test"]
              ELSE [thr EXCEPT ![t].pc = "done", ![t].raised = "ValueError: Invalid net argument"]
    /\ UNCHANGED keys
    /\ KeyFrame

\* public_spend_key, line 143
PskTest(t) ==
    /\ thr[t].pc = "psk_test"
    /\ thr' = [thr EXCEPT ![t].pc = IF Truthy(SpendKeyMemo(keys)) THEN "psk_ret" ELSE "psk_compute"]
    /\ UNCHANGED keys
    /\ KeyFrame

\* public_spend_key, line 145, right-hand side
PskCompute(t) ==
    /\ thr[t].pc = "psk_compute"
    /\ thr' = [thr EXCEPT ![t].tmp_spend = PublicFromSecretHex(SecretSpendKey(keys)),
                          ![t].pc = "psk_store"]
    /\ UNCHANGED keys
    /\ KeyFrame

\* public_spend_key, line 145, the assignment
PskStore(t) ==
    /\ thr[t].pc = "psk_store"
    /\ keys' = [keys EXCEPT !.ed_pub_spend_key = thr[t].tmp_spend]
    /\ thr' = [thr EXCEPT ![t].pc = "psk_ret"]
    /\ KeyFrame

\* public_spend_key, lines 144 and 146: return self._ed_pub_spend_key
PskRet(t) ==
    /\ thr[t].pc = "psk_ret"
    /\ thr' = IF thr[t].call = "public_spend_key"
              THEN [thr EXCEPT ![t].result = keys.ed_pub_spend_key, ![t].pc = "done"]
              ELSE [thr EXCEPT ![t].spend = keys.ed_pub_spend_key, ![t].pc = "pvk_test"]
    /\ UNCHANGED keys
    /\ KeyFrame

\* public_view_key, line 149
PvkTest(t) ==
    /\ thr[t].pc = "pvk_test"
    /\ thr' = [thr EXCEPT ![t].pc = IF Truthy(ViewKeyMemo(keys)) THEN "pvk_ret" ELSE "pvk_compute"]
    /\ UNCHANGED keys
    /\ KeyFrame

\* public_view_key, line 151, right-hand side
PvkCompute(t) ==
    /\ thr[t].pc = "pvk_compute"
    /\ thr' = [thr EXCEPT ![t].tmp_view = PublicFromSecretHex(SecretViewKey(keys)),
                          ![t].pc = "pvk_store"]
    /\ UNCHANGED keys
    /\ KeyFrame

\* public_view_key, line 151, the assignment
PvkStore(t) ==
    /\ thr[t].pc = "pvk_store"
    /\ keys' = [keys EXCEPT !.ed_pub_view_key = thr[t].tmp_view]
    /\ thr' = [thr EXCEPT ![t].pc = "pvk_ret"]
    /\ KeyFrame

\* public_view_key, lines 150 and 152: return self._ed_pub_view_key
PvkRet(t) ==
    /\ thr[t].pc = "pvk_ret"
    /\ thr' = IF thr[t].call = "public_view_key"
              THEN [thr EXCEPT ![t].result = keys.ed_pub_view_key, ![t].pc = "done"]
              ELSE [thr EXCEPT ![t].view = keys.ed_pub_view_key, ![t].pc = "addr_build"]
    /\ UNCHANGED keys
    /\ KeyFrame

\* public_address, lines 164-169
AddrBuild(t) ==
    /\ thr[t].pc = "addr_build"
    /\ thr' = [thr EXCEPT ![t].result = PublicAddressOf(thr[t].net, thr[t].spend, thr[t].view),
                          ![t].pc = "done"]
    /\ UNCHANGED keys
    /\ KeyFrame

KeyNext ==
    \E t \in Threads :
        \/ KeyCall(t)
        \/ AddrNet(t)
        \/ PskTest(t) \/ PskCompute(t) \/ PskStore(t) \/ PskRet(t)
        \/ PvkTest(t) \/ PvkCompute(t) \/ PvkStore(t) \/ PvkRet(t)
        \/ AddrBuild(t)

KeySpec == KeyInitState /\ [][KeyNext]_vars

-----------------------------------------------------------------------------
(* Claim about concurrent key derivation, checked under KeySpec.           *)

\* What one thread alone gets from a fresh Seed with these digits.
AlonePublicSpendKey(hex) ==
    <<"public_from_secret_hex",
      <<"sc_reduce", IF Len(hex) = 32 THEN <<"keccak", <<"bytes", hex>>>> ELSE <<"bytes", hex>>>>>>

AlonePublicViewKey(hex) ==
    <<"public_from_secret_hex",
      <<"sc_reduce",
        <<"keccak", IF Len(hex) = 32 THEN <<"keccak", <<"bytes", hex>>>>
                    ELSE <<"bytes", <<"sc_reduce", <<"bytes", hex>>>>>>>>>>>>

AloneResult(call, net, hex) ==
    CASE call = "public_spend_key" -> AlonePublicSpendKey(hex)
      [] call = "public_view_key" -> AlonePublicViewKey(hex)
      [] OTHER -> PublicAddressOf(net, AlonePublicSpendKey(hex), AlonePublicViewKey(hex))

C7_ResultsAndMemo ==
    /\ \A t \in Threads :
         thr[t].pc = "done" =>
            IF thr[t].call = "public_address" /\ thr[t].net \notin Nets
            THEN thr[t].raised # "none"
            ELSE thr[t].raised = "none"
                 /\ thr[t].result = AloneResult(thr[t].call, thr[t].net, keys.hex)
    /\ keys.ed_pub_spend_key \in {None, AlonePublicSpendKey(keys.hex)}
    /\ keys.ed_pub_view_key \in {None, AlonePublicViewKey(keys.hex)}

C7_FieldsStep ==
    /\ keys'.hex = keys.hex
    /\ keys'.phrase = keys.phrase
    /\ keys.ed_pub_spend_key # None => keys'.ed_pub_spend_key = keys.ed_pub_spend_key
    /\ keys.ed_pub_view_key # None => keys'.ed_pub_view_key = keys.ed_pub_view_key

\* C7: under any interleaving of threads calling public_spend_key,
\* public_view_key and public_address on one Seed, every call returns what
\* a call alone returns, each memo field only goes from None to that one
\* value, and hex and phrase never change.
C7_ConcurrentDerivationSafe == [](C7_ResultsAndMemo) /\ [][C7_FieldsStep]_vars

\* C7's case: two threads raced (both found the field None and both
\* computed the spend key), and both calls have returned.
C7_Witness ==
    /\ thr[1].pc = "done" /\ thr[2].pc = "done"
    /\ thr[1].tmp_spend # None /\ thr[2].tmp_spend # None
    /\ thr[1].call = "public_address" /\ thr[2].call = "public_spend_key"
    /\ thr[1].result = AloneResult("public_address", thr[1].net, keys.hex)


-----------------------------------------------------------------------------
(* Wallet (uplexa/wallet.py): the accounts list.                           *)

\* An account as the backend returns it. Account objects define neither
\* __bool__ nor __len__: every one is true.
Account(i, label) == [index |-> i, label |-> label]

AccountTruthy(a) == TRUE

Labels == {"None", "savings"}

\* A refresh that appends whatever the backend lists, present or not.
RefreshLoopAppendAll(accounts, idx, rest) == accounts \o rest

\* The loop of refresh(), lines 44-53, over what is left of
\* backend.accounts(): accounts[idx] raising IndexError falls through to
\* the append and idx += 1; accounts[idx] being true continues the loop.
RECURSIVE RefreshLoop(_, _, _)
RefreshLoop(accounts, idx, rest) ==
    IF rest = << >> THEN accounts
    ELSE IF idx < Len(accounts) /\ AccountTruthy(accounts[idx + 1])
         THEN RefreshLoop(accounts, idx, Tail(rest))
         ELSE RefreshLoop(Append(accounts, Head(rest)), idx + 1, Tail(rest))

\* Wallet.refresh(): self.accounts = self.accounts or [] (None and [] both
\* give the empty list), then the loop from idx = 0.
Refresh(accounts, backendAccounts) == RefreshLoop(accounts, 0, backendAccounts)

\* The backend and the Wallet built on it: __init__ calls refresh() with
\* accounts = None. The daemon always holds account 0.
InitialBackends ==
    {[accounts |-> <<Account(0, "None")>>, net |-> n] : n \in Nets}
    \cup {[accounts |-> <<Account(0, "None"), Account(1, l)>>, net |-> n] : l \in Labels, n \in Nets}

WalletInitState ==
    /\ seed = NoSeed
    /\ seed2 = NoSeed
    /\ keys = IdleKeys
    /\ thr = IdleThr
    /\ backend \in InitialBackends
    /\ wallet = [accounts |-> Refresh(<< >>, backend.accounts), last |-> "init", raised |-> "none"]
    /\ addr = IdleAddr
    /\ pid = IdlePid
    /\ pid2 = IdlePid
    /\ amt = IdleAmt

WalletFrame == UNCHANGED <<seed, seed2, keys, thr, addr, pid, pid2, amt>>

\* Another client of the same daemon creates an account.
OtherClientNewAccount ==
    /\ Len(backend.accounts) < MaxAccounts
    /\ \E l \in Labels :
          backend' = [backend EXCEPT !.accounts = Append(@, Account(Len(@), l))]
    /\ wallet' = [wallet EXCEPT !.last = "none", !.raised = "none"]
    /\ WalletFrame

\* wallet.refresh()
WalletRefresh ==
    /\ wallet' = [accounts |-> Refresh(wallet.accounts, backend.accounts),
                  last |-> "refresh", raised |-> "none"]
    /\ UNCHANGED backend
    /\ WalletFrame

\* wallet.new_account(label): the backend creates the account, then the
\* assertion, then the append.
WalletNewAccount ==
    /\ Len(backend.accounts) < MaxAccounts
    /\ \E l \in Labels :
          LET acc == Account(Len(backend.accounts), l)
          IN  /\ backend' = [backend EXCEPT !.accounts = Append(@, acc)]
              /\ wallet' = IF acc.index = Len(wallet.accounts)
                           THEN [accounts |-> Append(wallet.accounts, acc),
                                 last |-> "new_account", raised |-> "none"]
                           ELSE [wallet EXCEPT !.last = "new_account",
                                               !.raised = "AssertionError"]
    /\ WalletFrame

WalletNext == OtherClientNewAccount \/ WalletRefresh \/ WalletNewAccount

WalletSpec == WalletInitState /\ [][WalletNext]_vars

-----------------------------------------------------------------------------
(* Claim about refresh, checked under WalletSpec.                          *)

\* C8: after refresh() the accounts list holds every account
\* backend.accounts() returns, in the backend's order, whatever other
\* clients created before the call.
C8_RefreshUpdatesAccounts ==
    wallet.last = "refresh" => wallet.accounts = backend.accounts


-----------------------------------------------------------------------------
(* Wallet.get_address (uplexa/wallet.py, lines 195-228).                   *)

\* 2^16: an index is kept as hi * 2^16 + lo with 0 <= lo < 2^16, so that
\* 2**32 is hi = 2^16, lo = 0.
TwoPow16 == 65536

Idx(hi, lo) == [hi |-> hi, lo |-> lo]

\* i < 0 or i > 2**32: the range test with > written for >=.
OutsideUint32Strict(i) == i.hi < 0 \/ i.hi > TwoPow16 \/ (i.hi = TwoPow16 /\ i.lo > 0)

\* i < 0 or i >= 2**32 (lines 203, 205)
OutsideUint32(i) == i.hi < 0 \/ i.hi >= TwoPow16

\* major == 0 alone: the test of line 208 with minor forgotten.
IsMasterIndexMajorOnly(major, minor) == major.hi = 0 /\ major.lo = 0

\* major == minor == 0 (line 208)
IsMasterIndex(major, minor) ==
    /\ major.hi = minor.hi /\ major.lo = minor.lo
    /\ minor.hi = 0 /\ minor.lo = 0

\* struct.pack('<I', i): four bytes, least significant first; struct.error
\* for a number that is no uint32.
Packable(i) == 0 <= i.hi /\ i.hi < TwoPow16

StructPackU32(i) == <<"bytes", <<i.lo % 256, i.lo \div 256, i.hi % 256, i.hi \div 256>>>>

\* The seed the daemon's wallet was created from.
BackendSeed == SeedInit(HexArg(Concat(<<ChunkVals[5], ChunkVals[4], ChunkVals[3], ChunkVals[2],
                                        ChunkVals[4], ChunkVals[5], ChunkVals[2], ChunkVals[3]>>)), << >>)

\* The first address of account 0, as the backend reports it: the master
\* address of the daemon's seed on the daemon's net.
BackendMasterAddress(b) ==
    PublicAddressOf(b.net, PublicFromSecretHex(SecretSpendKey(BackendSeed)),
                    PublicFromSecretHex(SecretViewKey(BackendSeed)))

\* Wallet.address(): self.accounts[0].addresses()[0]
WalletAddress(w, b) == BackendMasterAddress(b)

\* Wallet.view_key(): self._backend.view_key()
WalletViewKey(w, b) == SecretViewKey(BackendSeed)

\* Address.spend_key(): the public spend key held in the address
AddressSpendKey(a) == a[2][2][3]

\* Address.is_mainnet(), is_testnet(): by the address's net byte
AddressIsMainnet(a) == a[2][2][2][1] = 18
AddressIsTestnet(a) == a[2][2][2][1] = 53

\* 42 if master_address.is_mainnet() else 63 if is_testnet() else 36
SubaddrNetbyte(a) == IF AddressIsMainnet(a) THEN 42 ELSE IF AddressIsTestnet(a) THEN 63 ELSE 36

\* Lines 210-228: the derived sub-address.
DeriveSubAddress(w, b, major, minor) ==
    LET master_address == WalletAddress(w, b)
        master_svk == Unhexlify(WalletViewKey(w, b))
        master_psk == Unhexlify(AddressSpendKey(WalletAddress(w, b)))
        hsdata == <<"join", <<"SubAddr0">>, master_svk, StructPackU32(major), StructPackU32(minor)>>
        m == Keccak(hsdata)
        D == <<"add_compressed", <<"decodepoint", master_psk>>,
               <<"scalarmult", <<"B">>, <<"decodeint", m>>>>>>
        C == <<"scalarmult", D, <<"decodeint", master_svk>>>>
        data == <<"data", <<SubaddrNetbyte(master_address)>>, <<"encodepoint", D>>, <<"encodepoint", C>>>>
    IN  <<"subaddress", <<"base58", data, <<"checksum", Keccak(data)>>>>>>

\* Wallet.get_address(major, minor): what it raises or returns, how many
\* times it asked the backend and how many curve operations it did.
GetAddress(w, b, major, minor) ==
    IF OutsideUint32(major)
    THEN [raised |-> "ValueError: major index is outside uint32 range", value |-> None,
          queries |-> 0, curve_ops |-> 0]
    ELSE IF OutsideUint32(minor)
    THEN [raised |-> "ValueError: minor index is outside uint32 range", value |-> None,
          queries |-> 0, curve_ops |-> 0]
    ELSE IF IsMasterIndex(major, minor)
    THEN [raised |-> "none", value |-> WalletAddress(w, b), queries |-> 1, curve_ops |-> 0]
    ELSE IF ~Packable(major) \/ ~Packable(minor)
    THEN [raised |-> "struct.error", value |-> None, queries |-> 3, curve_ops |-> 0]
    ELSE [raised |-> "none", value |-> DeriveSubAddress(w, b, major, minor),
          queries |-> 3, curve_ops |-> 3]

-----------------------------------------------------------------------------
(* AddrSpec: get_address on a Wallet, then the same call once more.        *)

\* -2^16 .. 2^32 + 2^16 + 1 in samples around 0, 2^16 and 2^32.
IdxInputs == {Idx(h, l) : h \in {-1, 0, 1, TwoPow16 - 1, TwoPow16}, l \in {0, 1, TwoPow16 - 1}}

AddrInitState ==
    /\ seed = NoSeed
    /\ seed2 = NoSeed
    /\ keys = IdleKeys
    /\ thr = IdleThr
    /\ backend \in InitialBackends
    /\ wallet = [accounts |-> Refresh(<< >>, backend.accounts), last |-> "init", raised |-> "none"]
    /\ addr = << >>
    /\ pid = IdlePid
    /\ pid2 = IdlePid
    /\ amt = IdleAmt

AddrFrame == UNCHANGED <<seed, seed2, keys, thr, backend, wallet, pid, pid2, amt>>

\* wallet.get_address(major, minor)
GetAddressCall ==
    /\ addr = << >>
    /\ \E major \in IdxInputs, minor \in IdxInputs :
          addr' = <<[major |-> major, minor |-> minor,
                     res |-> GetAddress(wallet, backend, major, minor)]>>
    /\ AddrFrame

\* wallet.get_address with the indices of the call before
GetAddressAgain ==
    /\ Len(addr) = 1
    /\ addr' = Append(addr, [major |-> addr[1].major, minor |-> addr[1].minor,
                             res |-> GetAddress(wallet, backend, addr[1].major, addr[1].minor)])
    /\ AddrFrame

AddrNext == GetAddressCall \/ GetAddressAgain

AddrSpec == AddrInitState /\ [][AddrNext]_vars

-----------------------------------------------------------------------------
(* Claims about get_address, checked under AddrSpec.                       *)

\* 0 <= i < 2^32, by the halves.
InUint32(i) == i.hi \in 0..(TwoPow16 - 1) /\ i.lo \in 0..(TwoPow16 - 1)

\* The four bytes of a uint32 read back as hi and lo.
UnpackU32(bs) == Idx(bs[2][3] + 256 * bs[2][4], bs[2][1] + 256 * bs[2][2])

\* What a sub-address's scalar m was hashed from: the term under
\* base58 / data / encodepoint(D) / D / scalarmult / decodeint / keccak.
HashedData(v) == v[2][2][3][2][3][3][2][2]

\* C5: get_address raises ValueError, before any backend query and any
\* curve operation, exactly when major or minor is outside [0, 2^32); an
\* index in range raises nothing and enters the derivation untruncated.
C5_IndexRangeChecked ==
    \A k \in 1..Len(addr) :
        LET c == addr[k]
        IN  IF InUint32(c.major) /\ InUint32(c.minor)
            THEN /\ c.res.raised = "none"
                 /\ c.res.value[1] = "subaddress" =>
                       /\ UnpackU32(HashedData(c.res.value)[4]) = c.major
                       /\ UnpackU32(HashedData(c.res.value)[5]) = c.minor
            ELSE /\ c.res.raised \in {"ValueError: major index is outside uint32 range",
                                      "ValueError: minor index is outside uint32 range"}
                 /\ c.res.queries = 0
                 /\ c.res.curve_ops = 0
                 /\ c.res.value = None

\* C5's case: get_address(1, 2^32) was refused before any query.
C5_Witness ==
    /\ Len(addr) = 2
    /\ addr[1].major = Idx(0, 1) /\ addr[1].minor = Idx(TwoPow16, 0)
    /\ addr[1].res.raised = "ValueError: minor index is outside uint32 range"
    /\ addr[1].res.queries = 0

\* C6: get_address(0, 0) returns the master address itself, with no curve
\* operation; any other pair in range returns a derived SubAddress, never
\* the master address; the same call made again returns the same.
C6_MasterAndDerived ==
    /\ \A k \in 1..Len(addr) :
         LET c == addr[k]
         IN  (InUint32(c.major) /\ InUint32(c.minor)) =>
                IF c.major = Idx(0, 0) /\ c.minor = Idx(0, 0)
                THEN /\ c.res.value = BackendMasterAddress(backend)
                     /\ c.res.curve_ops = 0
                ELSE /\ c.res.value[1] = "subaddress"
                     /\ c.res.value # BackendMasterAddress(backend)
                     /\ c.res.curve_ops > 0
    /\ Len(addr) = 2 => addr[2].res = addr[1].res

\* C6's case: (0, 1) gave a SubAddress, twice the same.
C6_Witness ==
    /\ Len(addr) = 2
    /\ addr[1].major = Idx(0, 0) /\ addr[1].minor = Idx(0, 1)
    /\ addr[1].res.value[1] = "subaddress"
    /\ addr[2].res.value = addr[1].res.value


-----------------------------------------------------------------------------
(* PaymentID (uplexa/numbers.py), as tests/test_numbers.py uses it. A      *)
(* number is its hexadecimal digits, most significant first, without       *)
(* leading zeros (0 is << >>).                                             *)

\* A hexadecimal string, as typed (leading zeros kept).
StrSrc(ds) == [kind |-> "str", neg |-> FALSE, digits |-> ds]

\* An int.
IntSrc(neg, ds) == [kind |-> "int", neg |-> neg, digits |-> ds]

\* Another PaymentID.
PidSrc(p) == [kind |-> "pid", neg |-> FALSE, digits |-> p.value]

\* a < b for two numbers
Less(a, b) ==
    \/ Len(a) < Len(b)
    \/ /\ Len(a) = Len(b)
       /\ \E i \in 1..Len(a) : a[i] < b[i] /\ \A j \in 1..(i - 1) : a[j] = b[j]

TwoPow64 == <<1>> \o Zeros(16)

TwoPow256 == <<1>> \o Zeros(64)

\* PaymentID(source), accepting everything up to 2^256 itself: the range
\* test with > written for >=.
PaymentIDInitInclusive(src) ==
    LET v == StripZeros(src.digits)
    IN  IF src.neg \/ Less(TwoPow256, v)
        THEN [raised |-> "ValueError", value |-> << >>]
        ELSE [raised |-> "none", value |-> v]

\* PaymentID(source): int(source, 16) of a string, int(source) of a
\* PaymentID, the int itself; a value outside [0, 2^256), one that needs
\* more than 64 hexadecimal digits, is refused.
PaymentIDInit(src) ==
    LET v == StripZeros(src.digits)
    IN  IF src.neg \/ Len(v) > 64
        THEN [raised |-> "ValueError", value |-> << >>]
        ELSE [raised |-> "none", value |-> v]

\* is_short() taking 16 digits to be long already.
PaymentIDIsShortOffByOne(p) == Len(p.value) < 16

\* PaymentID.is_short(): the value fits in 64 bits
PaymentIDIsShort(p) == Len(p.value) <= 16

\* The canonical rendering: zero-padded to 16 digits when short, to 64
\* when long.
PaymentIDRepr(p) ==
    LET w == IF PaymentIDIsShort(p) THEN 16 ELSE 64
    IN  Zeros(w - Len(p.value)) \o p.value

\* random.randint(a, b) of utils/transfer.py, line 36: a <= N <= b, both
\* ends included; samples of [0, 2**256].
RandintSamples ==
    {<< >>, <<1>>, Rep(15, 16), TwoPow64, Rep(15, 64), TwoPow256}

\* The strings tests/test_numbers.py builds PaymentIDs from, with what it
\* asserts of each: is_short() and the rendering.
TestPaymentIds ==
    { [src |-> <<0>>, short |-> TRUE, repr |-> Zeros(16)],
      [src |-> <<10,11,12,13,14,15>>, short |-> TRUE, repr |-> Zeros(10) \o <<10,11,12,13,14,15>>],
      [src |-> <<1,2,3,4,5,6,7,8,1,2,3,4,5,6,7,8>>, short |-> TRUE,
       repr |-> <<1,2,3,4,5,6,7,8,1,2,3,4,5,6,7,8>>],
      [src |-> <<10,1,2,3,4,5,6,7,8,1,2,3,4,5,6,7,8>>, short |-> FALSE,
       repr |-> Zeros(47) \o <<10,1,2,3,4,5,6,7,8,1,2,3,4,5,6,7,8>>] }

\* 2**256 + 1, which the test expects to raise ValueError.
TestTooLarge == <<1>> \o Zeros(63) \o <<1>>

\* Numbers around 2^64 and 2^256: a leading digit and a tail.
PidNumbers == {<<t>> \o Rep(f, r) : t \in {1, 15}, f \in {0, 15},
                                     r \in {0, 14, 15, 16, 62, 63, 64, 65}}
              \cup {<< >>, TestTooLarge}

PidSources ==
    {StrSrc(Zeros(z) \o n) : z \in {0, 1, 50}, n \in PidNumbers \ {<< >>}}
    \cup {StrSrc(Zeros(z)) : z \in {1, 16, 17, 70}}
    \cup {StrSrc(t.src) : t \in TestPaymentIds}
    \cup {IntSrc(FALSE, n) : n \in PidNumbers}
    \cup {IntSrc(TRUE, <<1>>), IntSrc(TRUE, TwoPow256)}

-----------------------------------------------------------------------------
(* PidSpec: build a PaymentID, then a PaymentID of it.                     *)

PidInitState ==
    /\ seed = NoSeed
    /\ seed2 = NoSeed
    /\ keys = IdleKeys
    /\ thr = IdleThr
    /\ backend = IdleBackend
    /\ wallet = IdleWallet
    /\ addr = IdleAddr
    /\ pid = IdlePid
    /\ pid2 = IdlePid
    /\ amt = IdleAmt

PidFrame == UNCHANGED <<seed, seed2, keys, thr, backend, wallet, addr, amt>>

\* PaymentID(source)
NewPaymentID ==
    /\ ~pid.built
    /\ \E src \in PidSources :
          pid' = [built |-> TRUE, src |-> src, obj |-> PaymentIDInit(src)]
    /\ UNCHANGED pid2
    /\ PidFrame

\* utils/transfer.py: const=PaymentID(random.randint(0, 2**256))
TransferDefaultPaymentID ==
    /\ ~pid.built
    /\ \E r \in RandintSamples :
          pid' = [built |-> TRUE, src |-> IntSrc(FALSE, r), obj |-> PaymentIDInit(IntSrc(FALSE, r))]
    /\ UNCHANGED pid2
    /\ PidFrame

\* PaymentID(pid)
CopyPaymentID ==
    /\ pid.built
    /\ pid.obj.raised = "none"
    /\ ~pid2.built
    /\ pid2' = [built |-> TRUE, src |-> PidSrc(pid.obj), obj |-> PaymentIDInit(PidSrc(pid.obj))]
    /\ UNCHANGED pid
    /\ PidFrame

PidNext == NewPaymentID \/ TransferDefaultPaymentID \/ CopyPaymentID

PidSpec == PidInitState /\ [][PidNext]_vars

-----------------------------------------------------------------------------
(* Claims about PaymentID, checked under PidSpec.                          *)

BuiltPids == {p \in {pid, pid2} : p.built}

\* The number a source denotes, whatever its form.
NumOf(src) == StripZeros(src.digits)

\* C9: is_short() is true exactly when the value is below 2^64, whether it
\* came as a string, an int or a PaymentID; the rendering is the value
\* zero-padded to 16 digits when short and to 64 when long; a PaymentID of
\* a PaymentID equals it; the tests' strings give what the tests assert.
C9_ClassifiedByValue ==
    /\ \A p \in BuiltPids :
         p.obj.raised = "none" =>
            /\ PaymentIDIsShort(p.obj) <=> Less(NumOf(p.src), TwoPow64)
            /\ Len(PaymentIDRepr(p.obj)) = (IF Less(NumOf(p.src), TwoPow64) THEN 16 ELSE 64)
            /\ StripZeros(PaymentIDRepr(p.obj)) = NumOf(p.src)
            /\ \A t \in TestPaymentIds :
                 (p.src.kind = "str" /\ p.src.digits = t.src) =>
                    /\ PaymentIDIsShort(p.obj) = t.short
                    /\ PaymentIDRepr(p.obj) = t.repr
    /\ pid2.built => (pid2.obj = pid.obj /\ PaymentIDRepr(pid2.obj) = PaymentIDRepr(pid.obj))

\* C9's case: a string of 67 digits, 50 of them leading zeros, gave a long
\* PaymentID of 64 digits, and its copy is equal to it.
C9_Witness ==
    /\ pid.built /\ pid2.built
    /\ pid.src.kind = "str" /\ Len(pid.src.digits) = 67 /\ pid.src.digits[1] = 0
    /\ ~PaymentIDIsShort(pid.obj)
    /\ Len(PaymentIDRepr(pid2.obj)) = 64

\* C10: construction raises ValueError for every value >= 2^256, 2^256
\* itself included, and succeeds for every value in [0, 2^256); no
\* PaymentID holds a value outside [0, 2^256), the transfer utility's
\* random default included.
C10_RangeEnforced ==
    \A p \in BuiltPids :
        /\ (~p.src.neg /\ ~Less(NumOf(p.src), TwoPow256)) => p.obj.raised = "ValueError"
        /\ (~p.src.neg /\ Less(NumOf(p.src), TwoPow256)) =>
              (p.obj.raised = "none" /\ p.obj.value = NumOf(p.src))
        /\ p.obj.raised = "none" => (~p.src.neg /\ Less(p.obj.value, TwoPow256))
        /\ p.obj.raised # "none" => p.obj.value = << >>

\* C10's case: exactly 2^256 was refused.
C10_Witness ==
    /\ pid.built
    /\ pid.src = IntSrc(FALSE, TwoPow256)
    /\ pid.obj.raised = "ValueError"

-----------------------------------------------------------------------------
(* Amounts (uplexa/numbers.py: to_atomic, from_atomic).  An integer is its  *)
(* decimal digit sequence without leading zeros (zero is << >>); a Decimal  *)
(* is the digits before and the digits after its point.                     *)

\* How many fractional digits beyond the twelfth the amounts tried carry.
MaxExtraDigits == 2

\* The number of decimal places between one coin and one atomic unit.
AtomicDigits == 12

Dec(int, frac) == [int |-> int, frac |-> frac]

\* a + b on decimal digit sequences, one digit longer than the longer one.
AddDec(a, b) ==
    LET L == (IF Len(a) > Len(b) THEN Len(a) ELSE Len(b)) + 1
        A == Zeros(L - Len(a)) \o a
        B == Zeros(L - Len(b)) \o b
        \* carry into digit i (counted from the least significant, 1-based)
        C[i \in 1..(L + 1)] == IF i = 1 THEN 0
                               ELSE (A[L + 2 - i] + B[L + 2 - i] + C[i - 1]) \div 10
    IN  [j \in 1..L |-> (A[j] + B[j] + C[L + 1 - j]) % 10]

\* d * 10**12 with the digits after the point cut off.
ShiftAtomic(d) ==
    d.int \o SubSeq(d.frac \o Zeros(AtomicDigits), 1, AtomicDigits)

\* to_atomic that cuts the thirteenth digit off instead of rounding on it.
ToAtomicTruncating(d) == StripZeros(ShiftAtomic(d))

\* to_atomic: d * 10**12 rounded to the nearest integer, a first dropped
\* digit of 5 or more rounding away from zero (d is not negative).
ToAtomic(d) ==
    LET dropped == SubSeq(d.frac, AtomicDigits + 1, Len(d.frac))
        up      == dropped # << >> /\ dropped[1] >= 5
    IN  StripZeros(IF up THEN AddDec(ShiftAtomic(d), <<1>>) ELSE ShiftAtomic(d))

\* from_atomic: n / 10**12, exactly: the last twelve digits of n follow the point.
FromAtomic(n) ==
    LET padded == Zeros(AtomicDigits + 1 - Len(n)) \o n
        k      == Len(padded) - AtomicDigits
    IN  Dec(SubSeq(padded, 1, k), SubSeq(padded, k + 1, Len(padded)))

\* Decimal equality is numeric: Decimal('1') == Decimal('1.000000000000').
StripTrailingZeros(ds) ==
    LET nz == {i \in 1..Len(ds) : ds[i] # 0}
    IN  IF nz = {} THEN << >>
        ELSE SubSeq(ds, 1, CHOOSE i \in nz : \A j \in nz : j <= i)

DecEq(a, b) ==
    /\ StripZeros(a.int) = StripZeros(b.int)
    /\ StripTrailingZeros(a.frac) = StripTrailingZeros(b.frac)

\* The assertions of test_simple_numbers, and of test_rounding on to_atomic.
TestSimpleNumbers ==
    /\ ToAtomic(Dec(<<0>>, << >>)) = << >>
    /\ DecEq(FromAtomic(<< >>), Dec(<<0>>, << >>))
    /\ ToAtomic(Dec(<<1>>, << >>)) = <<1>> \o Zeros(12)
    /\ DecEq(FromAtomic(<<1>> \o Zeros(12)), Dec(<<1>>, << >>))
    /\ ToAtomic(Dec(<<0>>, Zeros(11) \o <<1>>)) = <<1>>
    /\ DecEq(FromAtomic(<<1>>), Dec(<<0>>, Zeros(11) \o <<1>>))

TestRounding ==
    ToAtomic(Dec(<<1>>, Zeros(12) \o <<4>>)) = <<1>> \o Zeros(12)

(* The amounts tried. *)

IntParts == {<<0>>, <<9>>, <<1, 2>>}

FracTwelve == {Zeros(12), Rep(9, 12), Zeros(11) \o <<1>>}

ShortFracs == {<< >>, <<5>>, <<0, 0, 1>>, Rep(9, 11)}

\* The digits after the twelfth: any thirteenth digit, then digits of LaterDigits.
LaterDigits == {0, 5, 9}

RECURSIVE ExtraDigits(_)
ExtraDigits(k) ==
    IF k = 0 THEN {}
    ELSE IF k = 1 THEN {<<x>> : x \in 0..9}
    ELSE ExtraDigits(k - 1) \cup
         {Append(e, x) : e \in {f \in ExtraDigits(k - 1) : Len(f) = k - 1}, x \in LaterDigits}

DecimalInputs ==
    {Dec(i, f) : i \in IntParts, f \in ShortFracs \cup FracTwelve}
    \cup {Dec(i, f \o e) : i \in IntParts, f \in FracTwelve, e \in ExtraDigits(MaxExtraDigits)}

AtomicInputs ==
    {<< >>, <<1>>, <<1>> \o Zeros(12), Rep(9, 12), <<1>> \o Zeros(11),
     <<1, 2, 3, 4, 5, 6, 7, 8, 9, 0, 1, 2, 3, 4, 5>>}

(* AmountSpec: amounts are converted to atomic units and back. *)

AmountInitState ==
    /\ seed = NoSeed
    /\ seed2 = NoSeed
    /\ keys = IdleKeys
    /\ thr = IdleThr
    /\ backend = IdleBackend
    /\ wallet = IdleWallet
    /\ addr = IdleAddr
    /\ pid = IdlePid
    /\ pid2 = IdlePid
    /\ amt = IdleAmt

AmountFrame == UNCHANGED <<seed, seed2, keys, thr, backend, wallet, addr, pid, pid2>>

\* n = to_atomic(d)
ToAtomicCall ==
    /\ \E d \in DecimalInputs :
          amt' = [op |-> "to_atomic", d |-> d, n |-> ToAtomic(d), n0 |-> << >>]
    /\ AmountFrame

\* d = from_atomic(n), for a given n or for the n a to_atomic call returned
FromAtomicCall ==
    /\ \E n \in AtomicInputs \cup (IF amt.op = "to_atomic" THEN {amt.n} ELSE {}) :
          amt' = [op |-> "from_atomic", d |-> FromAtomic(n), n |-> << >>, n0 |-> n]
    /\ AmountFrame

\* n = to_atomic(from_atomic(n0))
ToAtomicOfFromAtomic ==
    /\ amt.op = "from_atomic"
    /\ amt' = [op |-> "round_trip", d |-> amt.d, n |-> ToAtomic(amt.d), n0 |-> amt.n0]
    /\ AmountFrame

AmountNext == ToAtomicCall \/ FromAtomicCall \/ ToAtomicOfFromAtomic

AmountSpec == AmountInitState /\ [][AmountNext]_vars

\* The digits of d to F places, the result n scaled to the same places, and
\* half an atomic unit in those places.
AllDigits(d, F) == StripZeros(d.int \o d.frac \o Zeros(F - Len(d.frac)))

Places(d) == IF Len(d.frac) > AtomicDigits THEN Len(d.frac) ELSE AtomicDigits + 1

C11_RoundTripReached ==
    /\ amt.op = "round_trip"
    /\ amt.n0 = Rep(9, 12)
    /\ amt.n = amt.n0

-----------------------------------------------------------------------------
(* Scalars at their point of use. *)

\* A scalar known to lie in [0, l): the bytes sc_reduce returned. The digest
\* of keccak_256 is any 256-bit string, and l is below 2^253.
ReducedScalar(x) ==
    \/ x[1] = "sc_reduce"
    \/ x[1] = "bytes" /\ x[2][1] = "sc_reduce"

\* m, the bytes decodeint takes for scalarmult(B, .) in a derived SubAddress v
DerivationScalar(v) == v[2][2][3][2][3][3][2]

\* master_svk, the bytes decodeint takes for scalarmult(D, .)
ViewScalar(v) == v[2][2][4][2][3][2]

\* C12: every scalar is reduced modulo l before it is used: the secret
\* spend key, the secret view key, and, in every SubAddress get_address
\* derived, the scalar m given to scalarmult with B and the view key given
\* to scalarmult with D.
C12_ScalarsReducedAtUse ==
    /\ ReducedScalar(SecretSpendKey(BackendSeed))
    /\ ReducedScalar(SecretViewKey(BackendSeed))
    /\ \A k \in 1..Len(addr) :
          (addr[k].res.raised = "none" /\ addr[k].res.value[1] = "subaddress") =>
              /\ ReducedScalar(ViewScalar(addr[k].res.value))
              /\ ReducedScalar(DerivationScalar(addr[k].res.value))

\* The part of C12 that holds: the keys are reduced, and so is the view key
\* a derivation multiplies D by.
C12_KeysReduced ==
    /\ ReducedScalar(SecretSpendKey(BackendSeed))
    /\ ReducedScalar(SecretViewKey(BackendSeed))
    /\ \A k \in 1..Len(addr) :
          (addr[k].res.raised = "none" /\ addr[k].res.value[1] = "subaddress") =>
              ReducedScalar(ViewScalar(addr[k].res.value))

-----------------------------------------------------------------------------
(* SoloWalletSpec: the wallet is the only client of its backend. *)

SoloWalletNext == WalletRefresh \/ WalletNewAccount

SoloWalletSpec == WalletInitState /\ [][SoloWalletNext]_vars

\* The list holds each backend account once, in the backend's order, the
\* account at position i having index i; no assertion has failed.
C13_ListMatchesBackend ==
    /\ wallet.accounts = backend.accounts
    /\ \A i \in 1..Len(wallet.accounts) : wallet.accounts[i].index = i - 1
    /\ \A i, j \in 1..Len(wallet.accounts) :
          wallet.accounts[i] = wallet.accounts[j] => i = j
    /\ wallet.raised = "none"

\* A step that leaves the backend as it was leaves the list as it was.
C13_UnchangedBackendStep ==
    backend' = backend => wallet'.accounts = wallet.accounts

\* C13: with the wallet the only client of its backend, after __init__ and
\* any refresh() and new_account() calls the accounts list holds each
\* backend account exactly once with accounts[i].index = i, the assertion
\* in new_account never fails, and refresh() on an unchanged backend leaves
\* the list unchanged.
C13_AccountListInvariant ==
    [](C13_ListMatchesBackend) /\ [][C13_UnchangedBackendStep]_vars

\* C13's case: accounts were created by new_account until there were three
\* or more, and a refresh() followed.
C13_Witness ==
    /\ wallet.last = "refresh"
    /\ Len(wallet.accounts) >= 3
    /\ Len(backend.accounts) = Len(wallet.accounts)
    /\ wallet.accounts[3].label = "savings"


====
